---- MODULE Spec2Model ----
(***************************************************************************)
(* A model of the AQI dashboard of src/main.py: the classifier functions   *)
(* get_aqi_color and get_aqi_category, the cached fetch get_aqi, the       *)
(* table-wide enrichment get_california_aqi and the single-ZIP lookup.     *)
(*                                                                         *)
(* Python and JSON values that may be None/null are modelled as options:   *)
(* None is the empty tuple and a present value v is the 1-tuple <<v>>.     *)
(* A dict is a function from its keys; a key the dict lacks is outside     *)
(* its DOMAIN, and subscripting it raises KeyError.  A Python call that    *)
(* may raise yields [err, val]: err = "" on a normal return.               *)
(*                                                                         *)
(* A call of get_aqi takes up to two steps: the lookup of the decorator,   *)
(* which returns a cached value or lets the body issue the HTTP request,   *)
(* and the return of requests.get, after which the value is stored.  Time  *)
(* passes, and other sessions call, between the two.                       *)
(***************************************************************************)
EXTENDS Integers, Sequences, FiniteSets, TLC

VARIABLES
    call,               \* a call of a classifier function: [fn, arg, ret]
    clock,              \* seconds since the program started
    cache,              \* st.cache_data of get_aqi: (zip_code, api_key) -> entry
    requests,           \* the HTTP requests completed so far, per key:
                        \* [at, stored, result]
    inflight,           \* the HTTP requests waited for: [key, at]
    last,               \* the last call of get_aqi that returned:
                        \* [key, at, ret, requested]
    df_cache,           \* st.cache_data of get_california_aqi
    ca_df,              \* the DataFrame get_california_aqi works on
    arg,                \* the DataFrame as it was passed to the running call
    pc,                 \* position inside get_california_aqi
    pos,                \* the row the for loop is at (1-based; idx = pos - 1)
    aqi_data,           \* the value get_aqi returned for the current row
    fetched,            \* the values get_aqi returned in this run, row by row
    overall_aqi, overall_category, latitudes, longitudes,
    error,              \* the exception that left get_california_aqi, or ""
    calls,              \* the rows get_aqi was called for in this run, in order
    runs,               \* calls of get_california_aqi so far
    returned,           \* what the completed calls returned:
                        \* [arg, out, cached, fetched]
    lookup              \* what the ZIP Code Lookup tab showed for the last search,
                        \* and the searches so far

classVars == <<call>>
cacheVars == <<clock, cache, requests, inflight, last>>
tableVars == <<df_cache, ca_df, arg, pc, pos, aqi_data, fetched, overall_aqi,
               overall_category, latitudes, longitudes, error, calls, runs, returned>>
vars == <<call, clock, cache, requests, inflight, last, df_cache, ca_df, arg, pc, pos,
          aqi_data, fetched, overall_aqi, overall_category, latitudes, longitudes,
          error, calls, runs, returned, lookup>>

----------------------------------------------------------------------------
(* Bounds of the model *)

MaxAqi == 302
MaxRows == 2
MaxObs == 2
MaxRuns == 2
MaxTicks == 2
MaxSearches == 2
Tick == 1800

----------------------------------------------------------------------------
(* Python values *)

None == <<>>
Some(v) == <<v>>

Ok(v) == [err |-> "", val |-> v]
Raise(e) == [err |-> e, val |-> None]

\* An exception raised after the statements before it took effect: done is what
\* they produced.
RaiseAfter(e, done) == [err |-> e, val |-> done]

\* d[k] for a dict d
GetItem(d, k) == IF k \in DOMAIN d THEN Ok(d[k]) ELSE Raise("KeyError")

\* v[k] for a JSON value v that is a dict or null
Subscript(v, k) == IF v = None THEN Raise("TypeError") ELSE GetItem(v[1], k)

----------------------------------------------------------------------------
(* The classifier *)

color_map ==
    ("Good" :> "green") @@ ("Moderate" :> "yellow")
    @@ ("Unhealthy for Sensitive Groups" :> "orange") @@ ("Unhealthy" :> "red")
    @@ ("Very Unhealthy" :> "purple") @@ ("Hazardous" :> "darkred")

get_aqi_color_nodefault(category) ==
    IF category # None /\ category[1] \in DOMAIN color_map
    THEN Some(color_map[category[1]]) ELSE None

\* color_map.get(category, 'gray'): category is a label or None
get_aqi_color(category) ==
    IF category # None /\ category[1] \in DOMAIN color_map
    THEN Some(color_map[category[1]]) ELSE Some("gray")

get_aqi_category_strict(aqi) ==
    IF aqi = None THEN "Unknown"
    ELSE IF aqi[1] < 50 THEN "Good"
    ELSE IF aqi[1] < 100 THEN "Moderate"
    ELSE IF aqi[1] < 150 THEN "Unhealthy for Sensitive Groups"
    ELSE IF aqi[1] < 200 THEN "Unhealthy"
    ELSE IF aqi[1] < 300 THEN "Very Unhealthy"
    ELSE "Hazardous"

get_aqi_category(aqi) ==
    IF aqi = None THEN "Unknown"
    ELSE IF aqi[1] <= 50 THEN "Good"
    ELSE IF aqi[1] <= 100 THEN "Moderate"
    ELSE IF aqi[1] <= 150 THEN "Unhealthy for Sensitive Groups"
    ELSE IF aqi[1] <= 200 THEN "Unhealthy"
    ELSE IF aqi[1] <= 300 THEN "Very Unhealthy"
    ELSE "Hazardous"

----------------------------------------------------------------------------
(* The upstream records.  Coordinates are whole degrees. *)

Zips == {"90210", "94103"}

CityOf(zip) == IF zip = "90210" THEN "Beverly Hills" ELSE "San Francisco"

Parameters == {"PM2.5", "O3"}
AqiValues == {40, 60}

\* What the reporting station of a pollutant says besides the AQI value.  The
\* category is the station's own label: it is not derived from the AQI here.
CategoryOf(param) ==
    IF param = "PM2.5" THEN [Number |-> Some(1), Name |-> Some("Good")]
    ELSE [Number |-> Some(2), Name |-> Some("Moderate")]
LatitudeOf(param) == IF param = "PM2.5" THEN 34 ELSE 37
LongitudeOf(param) == IF param = "PM2.5" THEN -118 ELSE -122

Observation(param, aqi) ==
    [ParameterName |-> Some(param), AQI |-> Some(aqi),
     Category |-> Some(CategoryOf(param)),
     Latitude |-> Some(LatitudeOf(param)), Longitude |-> Some(LongitudeOf(param))]

WellFormed == {Observation(p, a) : p \in Parameters, a \in AqiValues}

RequiredKeys == {"AQI", "Category", "Latitude", "Longitude"}

Without(obs, key) == [k \in DOMAIN obs \ {key} |-> obs[k]]

\* Raw records that lack a required field: the key is absent, or its value is null.
Malformed ==
    {Without(Observation("O3", 60), k) : k \in RequiredKeys}
    \cup {[Observation("O3", 60) EXCEPT ![k] = None] : k \in {"AQI", "Latitude"}}
    \cup {[Observation("O3", 60) EXCEPT !.Category = Some([Number |-> Some(2)])],
          [Observation("O3", 60) EXCEPT
              !.Category = Some([Number |-> Some(2), Name |-> None])]}

RawRecords == WellFormed \cup Malformed

\* The pollutant breakdown also reads ParameterName.
LookupRecords == RawRecords \cup {Without(Observation("O3", 60), "ParameterName")}

\* A record that carries all four required fields.
IsWellFormed(obs) ==
    /\ RequiredKeys \subseteq DOMAIN obs
    /\ \A k \in RequiredKeys : obs[k] # None
    /\ "Name" \in DOMAIN obs["Category"][1]
    /\ obs["Category"][1]["Name"] # None

SeqsUpTo(S, n) == UNION {[1..k -> S] : k \in 0..n}

\* What requests.get can do: answer 200 with a JSON list, answer another status,
\* or raise (a timeout, a connection error).
HttpOk(l) == [raised |-> FALSE, status_code |-> 200, json |-> l]
HttpStatus(code) == [raised |-> FALSE, status_code |-> code, json |-> <<>>]
HttpError == [raised |-> TRUE, status_code |-> 0, json |-> <<>>]

Failures == {HttpStatus(500), HttpError}
ListResponses(records, n) == {HttpOk(l) : l \in SeqsUpTo(records, n)} \cup Failures

\* The answers explored per ZIP code: every list of up to MaxObs records for
\* 90210, every list of at most one record for any other ZIP code.  The lookup
\* passes the text typed, a tuple of code points: 90210 is <<57, 48, 50, 49, 48>>.
TableResponses(zip) ==
    IF zip = "90210" THEN ListResponses(RawRecords, MaxObs)
    ELSE ListResponses(RawRecords, 1)
LookupResponses(zip_input) ==
    IF zip_input = <<57, 48, 50, 49, 48>> THEN ListResponses(LookupRecords, MaxObs)
    ELSE ListResponses(LookupRecords, 1)
GatewayResponses == {HttpOk(<<Observation("O3", 60)>>)} \cup Failures

\* The table read from data/california_zip_codes.csv.
CsvColumns == {"City", "ZIP Code"}
Row(zip) == [k \in CsvColumns |-> IF k = "City" THEN CityOf(zip) ELSE zip]
CsvTables == {[i \in DOMAIN zs |-> Row(zs[i])] : zs \in SeqsUpTo(Zips, MaxRows)}

----------------------------------------------------------------------------
(* The aggregation of get_california_aqi, lines 182-195 *)

RECURSIVE MaxScanLast(_, _, _)
MaxScanLast(l, i, best) ==
    IF i > Len(l) THEN Ok(best)
    ELSE LET item == GetItem(l[i], "AQI") IN
         IF item.err # "" THEN Raise(item.err)
         ELSE IF best = 0 THEN MaxScanLast(l, i + 1, i)
         ELSE IF item.val = None \/ l[best]["AQI"] = None THEN Raise("TypeError")
         ELSE IF item.val[1] >= l[best]["AQI"][1] THEN MaxScanLast(l, i + 1, i)
         ELSE MaxScanLast(l, i + 1, best)

\* max(obs['AQI'] for obs in aqi_data) and max(aqi_data, key=lambda x: x['AQI']):
\* the index of the first maximal element, or the exception raised on the way.
\* best is the index of the maximum so far, 0 before the first element.
RECURSIVE MaxScan(_, _, _)
MaxScan(l, i, best) ==
    IF i > Len(l) THEN Ok(best)
    ELSE LET item == GetItem(l[i], "AQI") IN
         IF item.err # "" THEN Raise(item.err)
         ELSE IF best = 0 THEN MaxScan(l, i + 1, i)
         ELSE IF item.val = None \/ l[best]["AQI"] = None THEN Raise("TypeError")
         ELSE IF item.val[1] > l[best]["AQI"][1] THEN MaxScan(l, i + 1, i)
         ELSE MaxScan(l, i + 1, best)

\* The four values one loop iteration appends, in the order of lines 187-190.
\* Each append evaluates its argument first: when that raises, the appends of
\* the lines before it have been made and val holds their values.
OverallResult(data) ==
    IF data # None /\ Len(data[1]) > 0
    THEN LET m == MaxScan(data[1], 1, 0) IN
         IF m.err # "" THEN RaiseAfter(m.err, <<>>)
         ELSE LET max_obs == data[1][m.val]
                  max_aqi == max_obs["AQI"]
                  cat == GetItem(max_obs, "Category")
                  name == IF cat.err # "" THEN cat ELSE Subscript(cat.val, "Name")
                  lat == GetItem(max_obs, "Latitude")
                  lon == GetItem(max_obs, "Longitude")
              IN IF name.err # "" THEN RaiseAfter(name.err, <<max_aqi>>)
                 ELSE IF lat.err # "" THEN RaiseAfter(lat.err, <<max_aqi, name.val>>)
                 ELSE IF lon.err # ""
                      THEN RaiseAfter(lon.err, <<max_aqi, name.val, lat.val>>)
                 ELSE Ok(<<max_aqi, name.val, lat.val, lon.val>>)
    ELSE Ok(<<None, None, None, None>>)

----------------------------------------------------------------------------
(* get_aqi and its cache, lines 142-160 *)

ApiKeys == {"key-A", "key-B"}
SidebarKey == "key-A"

ttl == 3600

\* The body of get_aqi, given what requests.get did.
get_aqi_uncached(response) ==
    IF response.raised THEN None
    ELSE IF response.status_code = 200 THEN Some(response.json)
    ELSE None

\* An entry is served while the clock is before its expiry.
CacheHit(c, k, now) == k \in DOMAIN c /\ now < c[k].expires

CacheSetUnlessNone(c, k, value, now) ==
    IF value = None THEN c
    ELSE [x \in DOMAIN c \cup {k} |->
            IF x = k THEN [value |-> value, expires |-> now + ttl] ELSE c[x]]

\* Whatever the function returned is stored, None included; the entry lives
\* for ttl from the moment it is stored.
CacheSet(c, k, value, now) ==
    [x \in DOMAIN c \cup {k} |->
        IF x = k THEN [value |-> value, expires |-> now + ttl] ELSE c[x]]

Last(seq) == seq[Len(seq)]

\* The requests completed for a key so far, in order.
RequestsOf(k) == IF k \in DOMAIN requests THEN requests[k] ELSE <<>>

\* The answers explored for a request: any of the given ones to the first
\* request for a key; to a later one, the answer of the request before it again
\* or one of a few others.
LaterResponses == {HttpOk(<<Observation("PM2.5", 40)>>)} \cup Failures
AnswersTo(k, Responses) ==
    IF RequestsOf(k) = <<>> THEN Responses
    ELSE {r \in Responses : get_aqi_uncached(r) = Last(RequestsOf(k)).result}
         \cup LaterResponses

\* A request for the key is being waited for.
InFlight(k) == \E r \in inflight : r.key = k

\* A call of get_aqi goes through @st.cache_data(ttl=3600) in three steps.
\* The decorator looks the key (zip_code, api_key) up and returns an unexpired
\* entry at once.
GetAqiHit(k) ==
    /\ CacheHit(cache, k, clock)
    /\ last' = Some([key |-> k, at |-> clock, ret |-> cache[k].value,
                     requested |-> FALSE])
    /\ UNCHANGED <<cache, requests, inflight>>

\* On a miss the decorator runs the body under the lock of the key, after a
\* second lookup under that lock: a caller that misses while another caller's
\* request for the same key is in flight waits for the lock and takes its step
\* once the lock is free.  The body gets as far as requests.get (line 153).
GetAqiRequest(k) ==
    /\ ~CacheHit(cache, k, clock)
    /\ ~InFlight(k)
    /\ inflight' = inflight \cup {[key |-> k, at |-> clock]}
    /\ UNCHANGED <<cache, requests, last>>

\* requests.get answers or raises, the body returns (lines 154-160) and the
\* decorator stores the value returned and releases the lock.  timeout=10
\* bounds the wait for each socket operation, not the wait as a whole.
GetAqiReturn(k, response) ==
    /\ \E r \in inflight :
          /\ r.key = k
          /\ inflight' = inflight \ {r}
          /\ requests' = [x \in DOMAIN requests \cup {k} |->
                            IF x = k
                            THEN Append(RequestsOf(k),
                                        [at |-> r.at, stored |-> clock,
                                         result |-> get_aqi_uncached(response)])
                            ELSE requests[x]]
    /\ cache' = CacheSet(cache, k, get_aqi_uncached(response), clock)
    /\ last' = Some([key |-> k, at |-> clock, ret |-> get_aqi_uncached(response),
                     requested |-> TRUE])

----------------------------------------------------------------------------
(* get_california_aqi, lines 165-205 *)

\* pd.read_csv of the file: its rows are the City and ZIP Code columns of every
\* table made from it.
ReadCsv(df) == [i \in DOMAIN df |-> [k \in CsvColumns |-> df[i][k]]]

KeptList(old) == old

\* overall_aqi = [] and the three lists after it
NewList(old) == <<>>

\* ca_df['AQI'] = overall_aqi and the three assignments after it
DerivedColumns == {"AQI", "AQI Category", "Latitude", "Longitude"}
SetColumns(df, a, c, la, lo) ==
    [i \in DOMAIN df |->
        [k \in DOMAIN df[i] \cup DerivedColumns |->
            IF k = "AQI" THEN a[i]
            ELSE IF k = "AQI Category" THEN c[i]
            ELSE IF k = "Latitude" THEN la[i]
            ELSE IF k = "Longitude" THEN lo[i]
            ELSE df[i][k]]]

\* The key of the get_aqi call for the row the loop is at.
RowKey == <<ca_df[pos]["ZIP Code"], SidebarKey>>

\* The call: the decorator of line 165 answers from its cache when it holds an
\* unexpired entry for (ca_df, api_key); otherwise the body starts.  The table
\* passed is the one just read from the CSV file, or the table as the last call
\* left it (the body writes its columns into the table it was given).  ca_df
\* holds the table the caller has after the call.
Call ==
    /\ pc \in {"idle", "returned", "raised"}
    /\ runs < MaxRuns
    /\ \E table \in {ReadCsv(ca_df), ca_df} :
         LET k == <<table, SidebarKey>> IN
         /\ runs' = runs + 1
         /\ IF CacheHit(df_cache, k, clock)
            THEN /\ pc' = "returned"
                 /\ ca_df' = df_cache[k].value
                 /\ returned' = Append(returned, [arg |-> table,
                                    out |-> df_cache[k].value, cached |-> TRUE,
                                    fetched |-> <<>>])
                 /\ error' = ""
                 /\ UNCHANGED <<arg, pos, overall_aqi, overall_category, latitudes,
                                longitudes, calls, fetched>>
            ELSE /\ pc' = IF Len(table) = 0 THEN "finish" ELSE "fetch"
                 /\ ca_df' = table
                 /\ arg' = table
                 /\ overall_aqi' = NewList(overall_aqi)
                 /\ overall_category' = NewList(overall_category)
                 /\ latitudes' = NewList(latitudes)
                 /\ longitudes' = NewList(longitudes)
                 /\ pos' = 1
                 /\ calls' = <<>>
                 /\ fetched' = <<>>
                 /\ error' = ""
                 /\ UNCHANGED returned
    /\ UNCHANGED <<call, clock, cache, requests, inflight, last, df_cache, aqi_data,
                   lookup>>

\* Line 180, aqi_data = get_aqi(row['ZIP Code'], api_key), up to the point where
\* the call returns from the cache or waits inside requests.get.
Fetch ==
    /\ pc = "fetch"
    /\ calls' = Append(calls, pos)
    /\ IF CacheHit(cache, RowKey, clock)
       THEN /\ GetAqiHit(RowKey)
            /\ aqi_data' = cache[RowKey].value
            /\ fetched' = Append(fetched, cache[RowKey].value)
            /\ pc' = "aggregate"
       ELSE /\ GetAqiRequest(RowKey)
            /\ pc' = "waiting"
            /\ UNCHANGED <<aqi_data, fetched>>
    /\ UNCHANGED <<call, clock, df_cache, ca_df, arg, pos, overall_aqi,
                   overall_category, latitudes, longitudes, error, runs, returned,
                   lookup>>

\* Line 180 once requests.get is over: get_aqi returns and aqi_data is assigned.
FetchReturn ==
    /\ pc = "waiting"
    /\ \E response \in AnswersTo(RowKey, TableResponses(ca_df[pos]["ZIP Code"])) :
         /\ GetAqiReturn(RowKey, response)
         /\ aqi_data' = get_aqi_uncached(response)
         /\ fetched' = Append(fetched, get_aqi_uncached(response))
    /\ pc' = "aggregate"
    /\ UNCHANGED <<call, clock, df_cache, ca_df, arg, pos, overall_aqi,
                   overall_category, latitudes, longitudes, error, calls, runs,
                   returned, lookup>>

\* list.append(value) when the loop body got as far as the n-th append.
AppendIf(list, done, n) == IF Len(done) >= n THEN Append(list, done[n]) ELSE list

\* Lines 182-195: the four appends, or the appends made before the exception
\* that ends the call.
Aggregate ==
    /\ pc = "aggregate"
    /\ LET res == OverallResult(aqi_data) IN
       /\ overall_aqi' = AppendIf(overall_aqi, res.val, 1)
       /\ overall_category' = AppendIf(overall_category, res.val, 2)
       /\ latitudes' = AppendIf(latitudes, res.val, 3)
       /\ longitudes' = AppendIf(longitudes, res.val, 4)
       /\ IF res.err # ""
          THEN /\ pc' = "raised"
               /\ error' = res.err
               /\ UNCHANGED pos
          ELSE /\ pos' = pos + 1
               /\ pc' = IF pos = Len(ca_df) THEN "finish" ELSE "fetch"
               /\ UNCHANGED error
    /\ UNCHANGED <<call, clock, cache, requests, inflight, last, df_cache, ca_df, arg,
                   aqi_data, fetched, calls, runs, returned, lookup>>

\* Lines 200-205: the columns are written into the table that was passed in and
\* the table is returned; the decorator stores it.  Assigning a list whose length
\* is not the table's raises ValueError.
Finish ==
    /\ pc = "finish"
    /\ IF Len(overall_aqi) # Len(ca_df)
       THEN /\ pc' = "raised"
            /\ error' = "ValueError"
            /\ UNCHANGED <<ca_df, df_cache, returned>>
       ELSE LET out == SetColumns(ca_df, overall_aqi, overall_category, latitudes,
                                  longitudes)
            IN /\ pc' = "returned"
               /\ ca_df' = out
               /\ df_cache' = CacheSet(df_cache, <<arg, SidebarKey>>, out, clock)
               /\ returned' = Append(returned, [arg |-> arg, out |-> out,
                                                cached |-> FALSE, fetched |-> fetched])
               /\ UNCHANGED error
    /\ UNCHANGED <<call, clock, cache, requests, inflight, last, arg, pos, aqi_data,
                   fetched, overall_aqi, overall_category, latitudes, longitudes,
                   calls, runs, lookup>>

----------------------------------------------------------------------------
(* The ZIP Code Lookup tab, lines 402-438, and display_pollutant_breakdown *)

\* A character is its Unicode code point, a string the tuple of its characters.
\* str.isdigit accepts every character whose Unicode property is Digit or
\* Decimal: the ten ASCII digits 48..57 and 778 others (SUPERSCRIPT TWO 178,
\* ARABIC-INDIC DIGITS 1632..1641, CIRCLED DIGITS 9312..9320, FULLWIDTH DIGITS
\* 65296..65305, ...).
Digits ==
    UNION {48..57, 178..179, 185..185, 1632..1641, 1776..1785, 1984..1993,
     2406..2415, 2534..2543, 2662..2671, 2790..2799, 2918..2927, 3046..3055,
     3174..3183, 3302..3311, 3430..3439, 3558..3567, 3664..3673, 3792..3801,
     3872..3881, 4160..4169, 4240..4249, 4969..4977, 6112..6121, 6160..6169,
     6470..6479, 6608..6618, 6784..6793, 6800..6809, 6992..7001, 7088..7097,
     7232..7241, 7248..7257, 8304..8304, 8308..8313, 8320..8329, 9312..9320,
     9332..9340, 9352..9360, 9450..9450, 9461..9469, 9471..9471,
     10102..10110, 10112..10120, 10122..10130, 42528..42537, 43216..43225,
     43264..43273, 43472..43481, 43504..43513, 43600..43609, 44016..44025,
     65296..65305, 66720..66729, 68160..68163, 68912..68921, 69216..69224,
     69714..69722, 69734..69743, 69872..69881, 69942..69951, 70096..70105,
     70384..70393, 70736..70745, 70864..70873, 71248..71257, 71360..71369,
     71472..71481, 71904..71913, 72016..72025, 72784..72793, 73040..73049,
     73120..73129, 92768..92777, 92864..92873, 93008..93017, 120782..120831,
     123200..123209, 123632..123641, 125264..125273, 127232..127242,
     130032..130041}

\* What can be typed into the text input (max_chars=5), character by character:
\* nothing, "9021", "9021x", "90210", "94103", "9021" with SUPERSCRIPT TWO,
\* "9021" with ARABIC-INDIC DIGIT ONE, and "90210" in fullwidth digits.
ZipInputs ==
    {<<>>, <<57, 48, 50, 49>>, <<57, 48, 50, 49, 120>>,
     <<57, 48, 50, 49, 48>>, <<57, 52, 49, 48, 51>>,
     <<57, 48, 50, 49, 178>>, <<57, 48, 50, 49, 1633>>,
     <<65305, 65296, 65298, 65297, 65296>>}

isdigit(str) == Len(str) > 0 /\ \A i \in 1..Len(str) : str[i] \in Digits

\* One card of the breakdown, lines 277-280, or the exception raised.
Card(pollutant) ==
    LET param_name == GetItem(pollutant, "ParameterName")
        aqi == GetItem(pollutant, "AQI")
        cat == GetItem(pollutant, "Category")
        name == IF cat.err # "" THEN cat ELSE Subscript(cat.val, "Name")
    IN IF param_name.err # "" THEN Raise(param_name.err)
       ELSE IF aqi.err # "" THEN Raise(aqi.err)
       ELSE IF name.err # "" THEN Raise(name.err)
       ELSE Ok([param_name |-> param_name.val, aqi |-> aqi.val,
                category |-> name.val, color |-> get_aqi_color(name.val)])

\* display_pollutant_breakdown(aqi_data) for a non-empty list: each card is
\* rendered inside the loop, so when a pollutant raises, the cards of the
\* pollutants before it are on the page.
display_pollutant_breakdown(l) ==
    LET bad == {i \in 1..Len(l) : Card(l[i]).err # ""}
        stop == IF bad = {} THEN Len(l) + 1
                ELSE CHOOSE i \in bad : \A j \in bad : i <= j
        cards == [i \in 1..(stop - 1) |-> Card(l[i]).val]
    IN IF bad # {} THEN RaiseAfter(Card(l[stop]).err, cards) ELSE Ok(cards)

NoLookup ==
    [shown |-> "nothing", zip_input |-> <<>>, aqi_data |-> None, max_aqi |-> None,
     category |-> None, color |-> None, cards |-> <<>>, error |-> "", searches |-> 0]

\* Line 412: the overall category of the lookup is computed from the AQI value.
LookupCategory(data, m) == Some(get_aqi_category(data[m]["AQI"]))

\* What the tab shows once get_aqi returned data, lines 409-438.
LookupPage(zip_input, data) ==
    IF data # None /\ Len(data[1]) > 0
    THEN LET m == MaxScan(data[1], 1, 0) IN
         IF m.err # ""
         THEN [NoLookup EXCEPT !.shown = "exception", !.zip_input = zip_input,
                               !.aqi_data = data, !.error = m.err]
         ELSE LET max_aqi == data[1][m.val]["AQI"]
                  category == LookupCategory(data[1], m.val)
                  color == get_aqi_color(category)
                  cards == display_pollutant_breakdown(data[1])
              IN [shown |-> IF cards.err # "" THEN "exception" ELSE "data",
                  zip_input |-> zip_input, aqi_data |-> data, max_aqi |-> max_aqi,
                  category |-> category, color |-> color, cards |-> cards.val,
                  error |-> cards.err, searches |-> 0]
    ELSE [NoLookup EXCEPT !.shown = "no data", !.zip_input = zip_input,
                          !.aqi_data = data]

\* The page shown by the n-th search.
Shown(page, n) == [page EXCEPT !.searches = n]

\* A press of the Search button with zip_input typed in, up to the point where
\* the page is shown or get_aqi (line 407) waits inside requests.get.
Search ==
    /\ lookup.shown # "waiting"
    /\ lookup.searches < MaxSearches
    /\ \E zip_input \in ZipInputs :
        LET n == lookup.searches + 1 IN
        IF Len(zip_input) = 0
        THEN /\ lookup' = Shown(NoLookup, n)
             /\ UNCHANGED <<cache, requests, inflight, last>>
        ELSE IF Len(zip_input) # 5 \/ ~isdigit(zip_input)
        THEN /\ lookup' = Shown([NoLookup EXCEPT !.shown = "invalid",
                                                 !.zip_input = zip_input], n)
             /\ UNCHANGED <<cache, requests, inflight, last>>
        ELSE IF CacheHit(cache, <<zip_input, SidebarKey>>, clock)
        THEN /\ GetAqiHit(<<zip_input, SidebarKey>>)
             /\ lookup' = Shown(LookupPage(zip_input,
                                           cache[<<zip_input, SidebarKey>>].value), n)
        ELSE /\ GetAqiRequest(<<zip_input, SidebarKey>>)
             /\ lookup' = Shown([NoLookup EXCEPT !.shown = "waiting",
                                                 !.zip_input = zip_input], n)

\* get_aqi returns to the lookup and the page is shown.
SearchReturn ==
    /\ lookup.shown = "waiting"
    /\ \E response \in AnswersTo(<<lookup.zip_input, SidebarKey>>,
                                  LookupResponses(lookup.zip_input)) :
         /\ GetAqiReturn(<<lookup.zip_input, SidebarKey>>, response)
         /\ lookup' = Shown(LookupPage(lookup.zip_input, get_aqi_uncached(response)),
                            lookup.searches)

----------------------------------------------------------------------------
(* Direct calls of the classifier functions *)

AqiInputs == {None} \cup {Some(n) : n \in 0..MaxAqi}
LabelInputs ==
    {None} \cup {Some(c) : c \in DOMAIN color_map \cup {"Unknown", "Unavailable", ""}}

NoCall == [fn |-> "", arg |-> None, ret |-> None, done |-> FALSE]

CallGetAqiCategory ==
    /\ call.fn = "get_aqi_category" /\ ~call.done
    /\ call' = [call EXCEPT !.ret = Some(get_aqi_category(call.arg)), !.done = TRUE]

CallGetAqiColor ==
    /\ call.fn = "get_aqi_color" /\ ~call.done
    /\ call' = [call EXCEPT !.ret = get_aqi_color(call.arg), !.done = TRUE]

----------------------------------------------------------------------------
(* Time, and get_aqi called by the sessions of the server *)

\* Time passes, also while a call waits inside requests.get.
Elapse ==
    /\ clock < MaxTicks * Tick
    /\ clock' = clock + Tick

\* Every session runs the script in a thread of its own, and either tab calls
\* get_aqi, for any ZIP code and any key typed in the sidebar.
GatewayKeys == {<<"90210", "key-A">>, <<"90210", "key-B">>, <<"94103", "key-A">>}

AnyGetAqiHit == \E k \in GatewayKeys : GetAqiHit(k)

AnyGetAqiRequest == \E k \in GatewayKeys : GetAqiRequest(k)

AnyGetAqiReturn ==
    \E k \in GatewayKeys : \E response \in GatewayResponses : GetAqiReturn(k, response)

----------------------------------------------------------------------------
(* Specifications *)

InitCache ==
    /\ clock = 0
    /\ cache = <<>>
    /\ requests = <<>>
    /\ inflight = {}
    /\ last = None

InitTable(tables) ==
    /\ df_cache = <<>>
    /\ ca_df \in tables
    /\ arg = <<>>
    /\ pc = "idle"
    /\ pos = 1
    /\ aqi_data = None
    /\ fetched = <<>>
    /\ overall_aqi = <<>>
    /\ overall_category = <<>>
    /\ latitudes = <<>>
    /\ longitudes = <<>>
    /\ error = ""
    /\ calls = <<>>
    /\ runs = 0
    /\ returned = <<>>

\* The California AQI Map tab: get_california_aqi on the table of the CSV file.
Init == call = NoCall /\ InitCache /\ InitTable(CsvTables) /\ lookup = NoLookup

TimePasses ==
    /\ Elapse
    /\ UNCHANGED <<call, cache, requests, inflight, last, lookup>>
    /\ UNCHANGED tableVars

\* Tick is long: the session spends that long only where it waits, inside
\* requests.get and between two runs of the script.
TableWaits == pc \in {"idle", "waiting", "returned", "raised"} /\ TimePasses

Next == Call \/ Fetch \/ FetchReturn \/ Aggregate \/ Finish \/ TableWaits

Spec == Init /\ [][Next]_vars

\* The ZIP Code Lookup tab.
InitLookup == call = NoCall /\ InitCache /\ InitTable({<<>>}) /\ lookup = NoLookup

NextLookup ==
    \/ Search /\ UNCHANGED <<call, clock>> /\ UNCHANGED tableVars
    \/ SearchReturn /\ UNCHANGED <<call, clock>> /\ UNCHANGED tableVars
    \/ TimePasses

SpecLookup == InitLookup /\ [][NextLookup]_vars

\* The classifier functions on their own.
InitClassifier ==
    /\ \/ call \in {[NoCall EXCEPT !.fn = "get_aqi_category", !.arg = a] : a \in AqiInputs}
       \/ call \in {[NoCall EXCEPT !.fn = "get_aqi_color", !.arg = c] : c \in LabelInputs}
    /\ InitCache /\ InitTable({<<>>}) /\ lookup = NoLookup

NextClassifier ==
    \/ CallGetAqiCategory /\ UNCHANGED cacheVars /\ UNCHANGED tableVars /\ UNCHANGED lookup
    \/ CallGetAqiColor /\ UNCHANGED cacheVars /\ UNCHANGED tableVars /\ UNCHANGED lookup

SpecClassifier == InitClassifier /\ [][NextClassifier]_vars

\* The cache of get_aqi over time, with the calls of several sessions.
InitGateway == call = NoCall /\ InitCache /\ InitTable({<<>>}) /\ lookup = NoLookup

NextGateway ==
    \/ AnyGetAqiHit /\ UNCHANGED <<call, clock, lookup>> /\ UNCHANGED tableVars
    \/ AnyGetAqiRequest /\ UNCHANGED <<call, clock, lookup>> /\ UNCHANGED tableVars
    \/ AnyGetAqiReturn /\ UNCHANGED <<call, clock, lookup>> /\ UNCHANGED tableVars
    \/ TimePasses

SpecGateway == InitGateway /\ [][NextGateway]_vars

----------------------------------------------------------------------------
(* Properties *)

\* j is the first element of l with the maximal AQI.
IsFirstMax(l, j) ==
    \A k \in 1..Len(l) :
        \/ k = j
        \/ /\ l[k]["AQI"][1] <= l[j]["AQI"][1]
           /\ k < j => l[k]["AQI"][1] < l[j]["AQI"][1]

Derived(row) == <<row["AQI"], row["AQI Category"], row["Latitude"], row["Longitude"]>>

\* The calls that ran the body, with what get_aqi returned for each row.
Ran == {n \in DOMAIN returned : ~returned[n].cached}

\* C1: get_aqi_category maps None to "Unknown" and every AQI value from 0 up
\* to exactly one band: up to 50 Good, 51..100 Moderate, 101..150 Unhealthy for
\* Sensitive Groups, 151..200 Unhealthy, 201..300 Very Unhealthy, above 300
\* Hazardous.
C1_CategoryBands ==
    (call.fn = "get_aqi_category" /\ call.done) =>
        /\ call.ret # None
        /\ call.arg = None => call.ret = Some("Unknown")
        /\ call.arg # None =>
             LET a == call.arg[1]
                 r == call.ret[1]
             IN /\ r = "Good" <=> a \in 0..50
                /\ r = "Moderate" <=> a \in 51..100
                /\ r = "Unhealthy for Sensitive Groups" <=> a \in 101..150
                /\ r = "Unhealthy" <=> a \in 151..200
                /\ r = "Very Unhealthy" <=> a \in 201..300
                /\ r = "Hazardous" <=> a > 300
                /\ r # "Unknown"

C1_Witness ==
    /\ call.fn = "get_aqi_category" /\ call.done
    /\ call.arg = Some(301) /\ call.ret = Some("Hazardous")

\* C7: get_aqi_color always returns a color: the fixed one of each of the six
\* categories, and gray for "Unknown", for None and for any other label.
C7_ColorTotal ==
    (call.fn = "get_aqi_color" /\ call.done) =>
        /\ call.ret # None
        /\ call.ret =
             IF call.arg = Some("Good") THEN Some("green")
             ELSE IF call.arg = Some("Moderate") THEN Some("yellow")
             ELSE IF call.arg = Some("Unhealthy for Sensitive Groups") THEN Some("orange")
             ELSE IF call.arg = Some("Unhealthy") THEN Some("red")
             ELSE IF call.arg = Some("Very Unhealthy") THEN Some("purple")
             ELSE IF call.arg = Some("Hazardous") THEN Some("darkred")
             ELSE Some("gray")

C7_Witness ==
    /\ call.fn = "get_aqi_color" /\ call.done
    /\ call.arg = Some("Unknown") /\ call.ret = Some("gray")

\* C2: in a returned table, a row whose ZIP code has a non-empty observation
\* list carries the AQI, the category name, the latitude and the longitude of
\* the first observation with the maximal AQI.
C2_FirstMaxSelected ==
    \A n \in Ran : \A i \in DOMAIN returned[n].out :
        LET row == returned[n].out[i]
            data == returned[n].fetched[i]
        IN (data # None /\ Len(data[1]) > 0) =>
             \E j \in 1..Len(data[1]) :
                /\ IsFirstMax(data[1], j)
                /\ row["AQI"] = data[1][j]["AQI"]
                /\ row["AQI Category"] = data[1][j]["Category"][1]["Name"]
                /\ row["Latitude"] = data[1][j]["Latitude"]
                /\ row["Longitude"] = data[1][j]["Longitude"]

C2_Witness ==
    /\ pc = "returned"
    /\ ~Last(returned).cached
    /\ \E i \in DOMAIN ca_df :
          /\ Last(returned).fetched[i]
                = Some(<<Observation("PM2.5", 60), Observation("O3", 60)>>)
          /\ Derived(ca_df[i]) = <<Some(60), Some("Good"), Some(34), Some(-118)>>

\* C3: every call of get_california_aqi completes and returns the rows it was
\* given, in their order; a row whose fetch failed or was empty has null
\* derived fields, and every row's fields depend on its own fetch only.
C3_Claim ==
    /\ pc # "raised"
    /\ \A n \in DOMAIN returned :
          LET in == returned[n].arg
              out == returned[n].out
          IN /\ Len(out) = Len(in)
             /\ \A i \in DOMAIN out :
                   /\ out[i]["City"] = in[i]["City"]
                   /\ out[i]["ZIP Code"] = in[i]["ZIP Code"]
                   /\ n \in Ran =>
                        LET data == returned[n].fetched[i] IN
                        /\ (data = None \/ data = Some(<<>>))
                              => Derived(out[i]) = <<None, None, None, None>>
                        /\ Derived(out[i]) = OverallResult(data).val

\* C4: in every returned table the four derived fields of a row are all null
\* or all non-null, and all null exactly when the fetch gave no observation.
C4_Claim ==
    \A n \in Ran : \A i \in DOMAIN returned[n].out :
        LET row == returned[n].out[i]
            data == returned[n].fetched[i]
            nulls == {x \in 1..4 : Derived(row)[x] = None}
            nodata == data = None \/ data = Some(<<>>)
        IN /\ nulls = {} \/ nulls = 1..4
           /\ nulls = 1..4 <=> nodata

DropMalformed(data) == IF data = None THEN None ELSE Some(SelectSeq(data[1], IsWellFormed))

\* C5: a raw record lacking a required field is dropped: no exception leaves
\* get_california_aqi, and what is recorded for a row is the result over the
\* well-formed records of its list.
C5_Claim ==
    /\ error = ""
    /\ \A i \in 1..Len(longitudes) :
          <<overall_aqi[i], overall_category[i], latitudes[i], longitudes[i]>>
             = OverallResult(DropMalformed(fetched[i])).val

\* C6: in the lookup, the category shown is the category name the upstream
\* reported for the first observation with the maximal AQI, and the color
\* shown is the color of that name.
C6_Claim ==
    lookup.shown = "data" =>
        LET l == lookup.aqi_data[1] IN
        \E j \in 1..Len(l) :
            /\ IsFirstMax(l, j)
            /\ lookup.category = l[j]["Category"][1]["Name"]
            /\ lookup.color = get_aqi_color(l[j]["Category"][1]["Name"])

\* C8: a run over n rows calls get_aqi once per row, in table order, each call
\* after the call before it returned and the fields of its row were recorded:
\* when the run has ended, rows 1..n were fetched.
C8_Claim ==
    /\ \A i \in DOMAIN calls : calls[i] = i
    /\ pc \in {"waiting", "aggregate"} =>
          /\ Len(longitudes) = Len(calls) - 1
          /\ Len(fetched) = Len(calls) - (IF pc = "waiting" THEN 1 ELSE 0)
    /\ pc = "fetch" => Len(longitudes) = Len(calls) /\ Len(fetched) = Len(calls)
    /\ (pc = "raised" \/ (pc = "returned" /\ ~Last(returned).cached))
          => Len(calls) = Len(ca_df)

\* The fetch results are deterministic: every request for a key had the same
\* result.
Deterministic ==
    \A k \in DOMAIN requests : \A i, j \in DOMAIN requests[k] :
        requests[k][i].result = requests[k][j].result

\* Every request of the runs was for the ZIP code of a row of the file, and
\* every returned table has the file's City and ZIP Code in each row, the
\* tables returned by a run on a returned table included.
SameRows ==
    /\ \A k \in DOMAIN requests \cup {r.key : r \in inflight} :
          k[2] = SidebarKey /\ \E i \in DOMAIN ca_df : k[1] = ReadCsv(ca_df)[i]["ZIP Code"]
    /\ \A n \in DOMAIN returned :
          /\ Len(returned[n].out) = Len(returned[n].arg)
          /\ \A i \in DOMAIN returned[n].out :
                /\ returned[n].out[i]["ZIP Code"] \in Zips
                /\ returned[n].out[i]["ZIP Code"] = returned[n].arg[i]["ZIP Code"]
                /\ returned[n].out[i]["City"] = CityOf(returned[n].out[i]["ZIP Code"])
                /\ DOMAIN returned[n].out[i] = CsvColumns \cup DerivedColumns

\* C9: with deterministic fetch results, a call on a table that an earlier
\* call was given, or on the table an earlier call returned, returns the table
\* the earlier call returned, and after a completed call no later call raises;
\* a run on a returned table fetches the same ZIP codes, row by row, as the run
\* that returned it.
C9_Idempotent ==
    /\ SameRows
    /\ Deterministic =>
          /\ \A m, n \in DOMAIN returned :
                (m < n /\ (returned[n].arg = returned[m].arg
                              \/ returned[n].arg = returned[m].out))
                   => returned[n].out = returned[m].out
          /\ returned # <<>> => pc # "raised"

C9_Witness ==
    /\ Deterministic
    /\ Len(returned) = 2
    /\ ~returned[2].cached
    /\ returned[2].arg = returned[1].out
    /\ Len(returned[2].out) >= 2
    /\ \E i \in DOMAIN returned[2].out : returned[2].out[i]["AQI"] # None
    /\ \E i \in DOMAIN returned[2].out : returned[2].out[i]["AQI"] = None
    /\ \E k \in DOMAIN requests : Len(requests[k]) >= 2
    /\ DOMAIN requests = {<<"90210", SidebarKey>>, <<"94103", SidebarKey>>}
    /\ \A k \in DOMAIN requests : Len(requests[k]) = 2
    /\ returned[2].fetched = returned[1].fetched
    /\ \A i \in DOMAIN returned[2].arg :
          DOMAIN returned[2].arg[i] = CsvColumns \cup DerivedColumns

\* C10: for each (zip_code, api_key), at most one request is in flight, a
\* request is issued no sooner than ttl after the result of the one before it
\* was stored, and a call that issued none falls inside the window of the
\* latest request and returned that request's result, a failure (None)
\* included.
C10_OneRequestPerWindow ==
    /\ \A k \in DOMAIN requests : \A i, j \in DOMAIN requests[k] :
          i < j => requests[k][j].at >= requests[k][i].stored + ttl
    /\ \A r \in inflight :
          /\ \A q \in inflight : q.key = r.key => q = r
          /\ RequestsOf(r.key) # <<>> => r.at >= Last(RequestsOf(r.key)).stored + ttl
    /\ last # None =>
          LET c == last[1]
              log == RequestsOf(c.key)
          IN /\ log # <<>>
             /\ Last(log).stored <= c.at
             /\ c.at < Last(log).stored + ttl
             /\ c.ret = Last(log).result
             /\ c.requested => Last(log).stored = c.at

C10_Witness ==
    /\ last # None
    /\ ~last[1].requested
    /\ last[1].ret = None
    /\ last[1].at >= Last(RequestsOf(last[1].key)).at + ttl
    /\ \E k \in DOMAIN requests : Len(requests[k]) = 2

====
